---- MODULE Spec2Model ----
(***************************************************************************)
(* A model of the FOSSology scheduler core, src/scheduler/agent/scheduler.c *)
(*                                                                         *)
(* Two state machines share this module:                                   *)
(*   Spec      one scheduler process after main() has initialised it: the  *)
(*             event loop, the tick callback update_scheduler, the signal  *)
(*             handlers chld_sig / prnt_sig and the configuration reload.  *)
(*   LockSpec  several processes running main() up to the event loop, at   *)
(*             system-call granularity, around the shared-memory lock.     *)
(*                                                                         *)
(* scheduler.c is the only file of the repository at hand.  The job queue, *)
(* the agent supervisor, the host registry and the event loop (job.c,      *)
(* agent.c, host.c, event.c) are modelled from their contracts in the      *)
(* design document; the definitions concerned say so.                      *)
(***************************************************************************)
EXTENDS Integers, Sequences, FiniteSets, TLC

(* ----------------------------- bounds ---------------------------------- *)
NJobs == 3        \* jobs in persistent storage
NHosts == 2       \* hosts a configuration file may name
MaxAgents == 1    \* the <max> field of every HOSTS.<id> entry
AgentMax == 2     \* the max key of every agent configuration file
MaxQueue == 2     \* events in flight, AGENT_DEATH events apart
NProcs == 2       \* processes started from the scheduler binary

Jobs == 1..NJobs
HostIds == 1..NHosts
NoJob == 0
NoHost == 0
\* host of an agent whose host object was destroyed by host_list_clean()
Departed == -1
\* agent types: the mods-enabled directory holds one ordinary and one
\* EXCLUSIVE agent
Types == {"copyright", "migrate"}
\* pids of the processes; pid 1 is init, get_locked_pid rejects pid < 2
Procs == 2..(NProcs + 1)
NoObject == 0

VARIABLES
  closing,      \* int closing                                   (line 69)
  j,            \* static job j of update_scheduler              (line 169)
  lockout,      \* static int lockout of update_scheduler        (line 170)
  terminated,   \* event_loop_terminate() has been called
  pc,           \* event loop: "tick" = the tick callback is due, "wait"
  queue,        \* the event loop's FIFO of events
  jtype,        \* job -> type name
  jstate,       \* job -> NEW | PENDING | CLAIMED | RUNNING | COMPLETE | FAILED
  agent,        \* job -> NONE | SPAWNING | DEAD (the supervisor's record)
  ahost,        \* job -> host of the job's agent
  proc,         \* job -> none | alive | zombie0 | zombie1 | reaped0 | reaped1
  hosts,        \* host registry: id -> [max_agents, running_agents]
  meta,         \* meta-agent registry: name -> [max, special]
  calls,        \* agent_init calls of the most recent tick, <<job, host>>
  pulled,       \* jobs next_job() returned in the most recent tick
  shmName,      \* the object the name PROCESS_NAME refers to (its creator)
  shmData,      \* creator -> bytes written to the object it created
  lpc,          \* process -> position in main()
  lrc,          \* process -> locals: call site, open handle, value read
  lmode,        \* process -> "run" | "kill" (the --kill option)
  lsig,         \* process -> a SIGQUIT has been sent to it
  lusr          \* process -> what set_usr_grp() met: "none" before it ran

coreVars == <<closing, j, lockout, terminated, pc, queue, jtype, jstate,
              agent, ahost, proc, hosts, meta, calls, pulled>>
lockVars == <<shmName, shmData, lpc, lrc, lmode, lsig, lusr>>
vars == <<closing, j, lockout, terminated, pc, queue, jtype, jstate,
          agent, ahost, proc, hosts, meta, calls, pulled,
          shmName, shmData, lpc, lrc, lmode, lsig, lusr>>

Min(S) == CHOOSE x \in S : \A y \in S : x <= y

\* the element of a one-element set; {F(x) : x \in {e}} computes e once
Once(S) == CHOOSE x \in S : TRUE

(* ------------------------- configuration ------------------------------- *)
\* the HOSTS groups a configuration file may hold: at least one host
HostConfigs == (SUBSET HostIds) \ {{}}

\* load_foss_config: host_list_clean(), then host_init for every HOSTS key
HostsFromConfig(c) ==
  [h \in c |-> [max_agents |-> MaxAgents, running_agents |-> 0]]

\* load_agent_config: agent_list_clean(), then add_meta_agent for every
\* directory of mods-enabled
MetaFromConfig ==
  [t \in Types |-> [max |-> AgentMax,
                    special |-> IF t = "migrate" THEN "EXCLUSIVE" ELSE "NONE"]]

(* ------------------------- collaborators ------------------------------- *)
\* num_agents(): agents the supervisor holds
num_agents(ag) == Cardinality({a \in Jobs : ag[a] = "SPAWNING"})

\* active_jobs(): jobs claimed by next_job() or running
active_jobs(js) == Cardinality({a \in Jobs : js[a] \in {"CLAIMED", "RUNNING"}})

\* is_exclusive(job_type(j))
is_exclusive(job) ==
  /\ jtype[job] \in DOMAIN meta
  /\ meta[jtype[job]].special = "EXCLUSIVE"

\* get_host(n): first host in registration order with n free slots
get_host(hs, n) ==
  LET free == {h \in DOMAIN hs : hs[h].max_agents - hs[h].running_agents >= n}
  IN  IF free = {} THEN NoHost ELSE Min(free)

\* next_job(): highest-priority PENDING job whose type has spare capacity
next_job(s) ==
  LET spare(t) == /\ t \in DOMAIN meta
                  /\ Cardinality({a \in Jobs : s.agent[a] = "SPAWNING"
                                                /\ jtype[a] = t}) < meta[t].max
      ready == {a \in Jobs : s.jstate[a] = "PENDING" /\ spare(jtype[a])}
  IN  IF ready = {} THEN NoJob ELSE Min(ready)

\* agent_init(host, job, 0): the supervisor's launch
agent_init(s, h, job) ==
  LET s1 == [s EXCEPT !.calls = Append(@, <<job, h>>)]
  IN  IF h \notin DOMAIN s.hosts
      THEN s1
      ELSE IF s.hosts[h].running_agents >= s.hosts[h].max_agents
      THEN s1
      ELSE IF jtype[job] \notin DOMAIN meta
      THEN s1
      ELSE [s1 EXCEPT !.agent[job] = "SPAWNING",
                      !.ahost[job] = h,
                      !.proc[job] = "alive",
                      !.jstate[job] = "RUNNING",
                      !.hosts[h].running_agents = @ + 1]

(* ------------------------- update_scheduler ---------------------------- *)
\* the state update_scheduler and its callees work on
Snapshot ==
  [jstate |-> jstate, agent |-> agent, ahost |-> ahost, proc |-> proc,
   hosts |-> hosts, j |-> j, calls |-> <<>>, pulled |-> <<>>]

\* the test of line 176 without n_jobs == 0
TerminateCond_NoJobs(n_agents, n_jobs) == closing /\ n_agents = 0

\* if(closing && n_agents == 0 && n_jobs == 0)
TerminateCond(n_agents, n_jobs) == closing /\ n_agents = 0 /\ n_jobs = 0

\* if(lockout && n_agents == 0 && n_jobs == 0) lockout = 0;
LockoutAfterCheck(n_agents, n_jobs) ==
  IF lockout /\ n_agents = 0 /\ n_jobs = 0 THEN FALSE ELSE lockout

\* the test of line 185 without !lockout
PullCond_NoLockout(lk) == j = NoJob

\* if(j == NULL && !lockout)
PullCond(lk) == j = NoJob /\ ~lk

\* while((j = next_job()) != NULL) { if exclusive break; agent_init(...); }
RECURSIVE PullLoop(_)
PullLoop(s) ==
  LET nj == next_job(s)
  IN  IF nj = NoJob
      THEN [s EXCEPT !.j = NoJob]
      ELSE LET s1 == [s EXCEPT !.j = nj,
                               !.jstate[nj] = "CLAIMED",
                               !.pulled = Append(@, nj)]
           IN  IF is_exclusive(nj)
               THEN s1
               ELSE Once({PullLoop(x) :
                            x \in {agent_init(s1, get_host(s1.hosts, 1), nj)}})

\* if(j != NULL && n_agents == 0 && n_jobs == 0)
\*   { agent_init(get_host(1), j, 0); lockout = 1; j = NULL; }
DeferredCond(s, n_agents, n_jobs) ==
  s.j # NoJob /\ n_agents = 0 /\ n_jobs = 0

\* AfterPull without line 204 (j = NULL): the launched job stays deferred
AfterPull_KeepsJ(s1, lk, n_agents, n_jobs) ==
  IF DeferredCond(s1, n_agents, n_jobs)
  THEN [s |-> agent_init(s1, get_host(s1.hosts, 1), s1.j), lockout |-> TRUE]
  ELSE [s |-> s1, lockout |-> lk]

\* the body of update_scheduler after the closing test: the resulting
\* collaborator state and the new value of lockout
AfterPull(s1, lk, n_agents, n_jobs) ==
  IF DeferredCond(s1, n_agents, n_jobs)
  THEN [s |-> [agent_init(s1, get_host(s1.hosts, 1), s1.j) EXCEPT !.j = NoJob],
        lockout |-> TRUE]
  ELSE [s |-> s1, lockout |-> lk]

SchedulerBody(n_agents, n_jobs) ==
  LET lk == LockoutAfterCheck(n_agents, n_jobs)
  IN  Once({AfterPull(s1, lk, n_agents, n_jobs) :
              s1 \in {IF PullCond(lk) THEN PullLoop(Snapshot) ELSE Snapshot}})

\* the event loop has left event_loop_enter
LoopEnded == terminated /\ queue = <<>> /\ pc = "wait"

\* update_scheduler, the tick callback
update_scheduler ==
  /\ pc = "tick"
  /\ pc' = "wait"
  /\ LET n_agents == num_agents(agent)
         n_jobs == active_jobs(jstate)
     IN  IF TerminateCond(n_agents, n_jobs)
         THEN /\ terminated' = TRUE
              /\ calls' = <<>>
              /\ pulled' = <<>>
              /\ UNCHANGED <<j, lockout, jstate, agent, ahost, proc, hosts>>
         ELSE \E r \in {SchedulerBody(n_agents, n_jobs)} :
                  /\ j' = r.s.j
                  /\ lockout' = r.lockout
                  /\ jstate' = r.s.jstate
                  /\ agent' = r.s.agent
                  /\ ahost' = r.s.ahost
                  /\ proc' = r.s.proc
                  /\ hosts' = r.s.hosts
                  /\ calls' = r.s.calls
                  /\ pulled' = r.s.pulled
                  /\ UNCHANGED terminated
  /\ UNCHANGED <<closing, queue, jtype, meta>>
  /\ UNCHANGED lockVars

(* --------------------------- event loop -------------------------------- *)
Event(k, ps) == [kind |-> k, pids |-> ps]

\* event_signal(func, arg)
event_signal(q, k, ps) == Append(q, Event(k, ps))

\* the loop takes the next event; its handler runs, then the tick is due
TakeEvent(k) ==
  /\ pc = "wait"
  /\ queue # <<>>
  /\ Head(queue).kind = k
  /\ queue' = Tail(queue)
  /\ pc' = "tick"

\* agent_death_event(pid_list): retire every agent of the batch
agent_death_event ==
  /\ TakeEvent("AGENT_DEATH")
  /\ LET known == {a \in Head(queue).pids : agent[a] = "SPAWNING"}
     IN  /\ agent' = [a \in Jobs |-> IF a \in known THEN "DEAD" ELSE agent[a]]
         /\ jstate' = [a \in Jobs |->
                         IF a \in known
                         THEN IF proc[a] = "reaped0" THEN "COMPLETE" ELSE "FAILED"
                         ELSE jstate[a]]
         /\ proc' = [a \in Jobs |-> IF a \in known THEN "none" ELSE proc[a]]
         /\ hosts' = [h \in DOMAIN hosts |->
                        [hosts[h] EXCEPT !.running_agents =
                           @ - Cardinality({a \in known : ahost[a] = h})]]
         /\ ahost' = [a \in Jobs |-> IF a \in known THEN NoHost ELSE ahost[a]]
  /\ UNCHANGED <<closing, j, lockout, terminated, jtype, meta,
                 calls, pulled>>
  /\ UNCHANGED lockVars

\* agent_update_event: looks at the agents, changes nothing modelled here
agent_update_event ==
  /\ TakeEvent("AGENT_UPDATE")
  /\ UNCHANGED <<closing, j, lockout, terminated, jtype, jstate, agent, ahost,
                 proc, hosts, meta, calls, pulled>>
  /\ UNCHANGED lockVars

\* database_update_event: jobs found in persistent storage become PENDING
database_update_event ==
  /\ TakeEvent("DATABASE_UPDATE")
  /\ \E S \in SUBSET {a \in Jobs : jstate[a] = "NEW"} :
       jstate' = [a \in Jobs |-> IF a \in S THEN "PENDING" ELSE jstate[a]]
  /\ UNCHANGED <<closing, j, lockout, terminated, jtype, agent, ahost,
                 proc, hosts, meta, calls, pulled>>
  /\ UNCHANGED lockVars

\* scheduler_close_event: closing = 1; kill_agents();
scheduler_close_event ==
  /\ TakeEvent("SCHEDULER_CLOSE")
  /\ closing' = TRUE
  /\ UNCHANGED <<j, lockout, terminated, jtype, jstate, agent, ahost,
                 proc, hosts, meta, calls, pulled>>
  /\ UNCHANGED lockVars

(* ----------------------------- signals --------------------------------- *)
\* an agent process exits with status 0 or 1
AgentExit(a, status) ==
  /\ proc[a] = "alive"
  /\ proc' = [proc EXCEPT ![a] = IF status = 0 THEN "zombie0" ELSE "zombie1"]
  /\ UNCHANGED <<closing, j, lockout, terminated, pc, queue, jtype, jstate,
                 agent, ahost, hosts, meta, calls, pulled>>
  /\ UNCHANGED lockVars

\* chld_sig with waitpid(-1, WNOHANG) called once instead of in the loop of
\* line 98: one dead child is reaped per signal
chld_sig_Once ==
  /\ ~LoopEnded
  /\ LET dead == {a \in Jobs : proc[a] \in {"zombie0", "zombie1"}}
     IN  /\ dead # {}
         /\ proc' = [a \in Jobs |->
                       IF a # Min(dead) THEN proc[a]
                       ELSE IF proc[a] = "zombie0" THEN "reaped0" ELSE "reaped1"]
         /\ queue' = event_signal(queue, "AGENT_DEATH", {Min(dead)})
  /\ UNCHANGED <<closing, j, lockout, terminated, pc, jtype, jstate,
                 agent, ahost, hosts, meta, calls, pulled>>
  /\ UNCHANGED lockVars

\* chld_sig: waitpid(-1, WNOHANG) until no dead child is left, one event
chld_sig ==
  /\ ~LoopEnded
  /\ LET dead == {a \in Jobs : proc[a] \in {"zombie0", "zombie1"}}
     IN  /\ dead # {}
         /\ proc' = [a \in Jobs |->
                       IF proc[a] = "zombie0" THEN "reaped0"
                       ELSE IF proc[a] = "zombie1" THEN "reaped1"
                       ELSE proc[a]]
         /\ queue' = event_signal(queue, "AGENT_DEATH", dead)
  /\ UNCHANGED <<closing, j, lockout, terminated, pc, jtype, jstate,
                 agent, ahost, hosts, meta, calls, pulled>>
  /\ UNCHANGED lockVars

\* prnt_sig(SIGALRM)
prnt_sig_SIGALRM ==
  /\ ~LoopEnded
  /\ Len(queue) + 2 <= MaxQueue
  /\ queue' = event_signal(event_signal(queue, "AGENT_UPDATE", {}),
                           "DATABASE_UPDATE", {})
  /\ UNCHANGED <<closing, j, lockout, terminated, pc, jtype, jstate,
                 agent, ahost, proc, hosts, meta, calls, pulled>>
  /\ UNCHANGED lockVars

\* prnt_sig(SIGTERM), prnt_sig(SIGQUIT), prnt_sig(SIGINT)
prnt_sig_SIGTERM ==
  /\ ~LoopEnded
  /\ Len(queue) < MaxQueue
  /\ queue' = event_signal(queue, "SCHEDULER_CLOSE", {})
  /\ UNCHANGED <<closing, j, lockout, terminated, pc, jtype, jstate,
                 agent, ahost, proc, hosts, meta, calls, pulled>>
  /\ UNCHANGED lockVars

\* load_foss_config without line 470: the hosts of the previous load stay
\* registered beside the new ones, a host named again offers both its
\* old and its new slots and keeps the old agents
load_foss_config_NoClean(hs, c) ==
  [h \in DOMAIN hs \cup c |->
     IF h \in c /\ h \in DOMAIN hs
     THEN [max_agents |-> hs[h].max_agents + HostsFromConfig(c)[h].max_agents,
           running_agents |-> hs[h].running_agents]
     ELSE IF h \in c THEN HostsFromConfig(c)[h] ELSE hs[h]]

\* load_foss_config() on the host registry hs: host_list_clean() destroys
\* every host, then host_init registers every key of the HOSTS group c
load_foss_config(hs, c) ==
  LET cleaned == [h \in {} |-> hs[h]]
  IN  [h \in DOMAIN cleaned \cup c |->
         IF h \in c THEN HostsFromConfig(c)[h] ELSE cleaned[h]]

\* load_agent_config() on the meta-agent registry m: agent_list_clean(),
\* then add_meta_agent for every directory of mods-enabled
load_agent_config(m) ==
  LET cleaned == [t \in {} |-> m[t]]
  IN  [t \in DOMAIN cleaned \cup Types |->
         IF t \in Types THEN MetaFromConfig[t] ELSE cleaned[t]]

\* load_config(NULL): load_foss_config(); load_agent_config();
\* c is the HOSTS group the configuration file holds at that moment;
\* the agents of destroyed hosts keep running
load_config(c) ==
  /\ hosts' = load_foss_config(hosts, c)
  /\ meta' = load_agent_config(meta)
  /\ ahost' = [a \in Jobs |-> IF agent[a] = "SPAWNING" THEN Departed
                              ELSE ahost[a]]

\* prnt_sig(SIGHUP): calls load_config(NULL) in the signal handler
prnt_sig_SIGHUP(c) ==
  /\ ~LoopEnded
  /\ load_config(c)
  /\ UNCHANGED <<closing, j, lockout, terminated, pc, queue, jtype, jstate,
                 agent, proc, calls, pulled>>
  /\ UNCHANGED lockVars

(* ------------------------- the process lock ---------------------------- *)
\* width of the pid in the lock: sprintf(buf, "%-9.9d", getpid())
PidWidth == 9

RECURSIVE Pow10(_)
Pow10(n) == IF n = 0 THEN 1 ELSE 10 * Pow10(n - 1)

\* sprintf(buf, "%-9.9d", pid): at least PidWidth digits, zero-padded
FormatPid(pid) ==
  [i \in 1..PidWidth |-> (pid \div Pow10(PidWidth - i)) % 10]

\* atoi(buf): the value of the leading digits, 0 for an empty buffer
RECURSIVE atoi(_)
atoi(buf) ==
  IF buf = <<>> THEN 0
  ELSE 10 * atoi(SubSeq(buf, 1, Len(buf) - 1)) + buf[Len(buf)]

\* kill(pid, 0) == 0: pid is a process that has started and not yet ended
Alive(pid) ==
  pid \in Procs /\ lpc[pid] \notin {"new", "exited", "fatal", "crashed"}

Locals(site, handle, val) == [site |-> site, handle |-> handle, val |-> val]

\* where get_locked_pid() returns to, by call site:
\*   lock_scheduler line 275, main line 644, kill_scheduler line 346
AfterGetLockedPid(site, r) ==
  IF site = "lock" THEN (IF r # 0 THEN "init" ELSE "l_create")
  ELSE IF site = "main" THEN (IF r = 0 THEN "fatal" ELSE "init")
  ELSE (IF r # 0 THEN "k_kill" ELSE "exited")

get_locked_pid_return(p, r) ==
  /\ lpc' = [lpc EXCEPT ![p] = AfterGetLockedPid(lrc[p].site, r)]
  /\ lrc' = [lrc EXCEPT ![p] = Locals(@.site, NoObject, r)]

\* what set_usr_grp() may meet: everything succeeds, getgrnam finds no
\* group, setgid/setegid is refused, getpwnam finds no user, setuid/seteuid
\* is refused
UsrGrp == {"ok", "nogroup", "setgid", "nouser", "setuid"}

\* set_usr_grp(): where main() is after it.  A refused call and a missing
\* user end in exit(-1).  A missing group is only a TODO (lines 308-311):
\* line 315 reads grp->gr_gid through the null pointer, which is undefined:
\* the process is killed by SIGSEGV, or the value read makes setgid fail
\* (exit(-1)), or setgid accepts it and main() goes on
set_usr_grp(o) ==
  IF o = "ok" THEN {"g_open"}
  ELSE IF o = "nogroup" THEN {"crashed", "fatal", "g_open"}
  ELSE {"fatal"}

\* main() up to line 644; --kill runs kill_scheduler() instead
main_start(p, m) ==
  /\ lpc[p] = "new"
  /\ lmode' = [lmode EXCEPT ![p] = m]
  /\ \E o \in UsrGrp :
       /\ lusr' = [lusr EXCEPT ![p] = o]
       /\ \E n \in set_usr_grp(o) : lpc' = [lpc EXCEPT ![p] = n]
  /\ lrc' = [lrc EXCEPT ![p] =
               Locals(IF m = "kill" THEN "kill" ELSE "lock", NoObject, 0)]
  /\ UNCHANGED <<shmName, shmData, lsig>>
  /\ UNCHANGED coreVars

\* get_locked_pid: shm_open(PROCESS_NAME, O_RDONLY, 0444)
get_locked_pid_open(p) ==
  /\ lpc[p] = "g_open"
  /\ IF shmName = NoObject
     THEN get_locked_pid_return(p, 0)
     ELSE /\ lpc' = [lpc EXCEPT ![p] = "g_read"]
          /\ lrc' = [lrc EXCEPT ![p] = Locals(@.site, shmName, 0)]
  /\ UNCHANGED <<shmName, shmData, lmode, lsig>>
  /\ UNCHANGED lusr
  /\ UNCHANGED coreVars

\* get_locked_pid: read(handle, buf, sizeof(buf)); pid = atoi(buf)
get_locked_pid_read(p) ==
  /\ lpc[p] = "g_read"
  /\ lpc' = [lpc EXCEPT ![p] = "g_check"]
  /\ lrc' = [lrc EXCEPT ![p] =
               Locals(@.site, @.handle, atoi(shmData[@.handle]))]
  /\ UNCHANGED <<shmName, shmData, lmode, lsig>>
  /\ UNCHANGED lusr
  /\ UNCHANGED coreVars

\* get_locked_pid: pid < 2 unlinks the lock; else kill(pid, 0)
get_locked_pid_check(p) ==
  /\ lpc[p] = "g_check"
  /\ IF lrc[p].val < 2
     THEN /\ shmName' = NoObject
          /\ get_locked_pid_return(p, 0)
     ELSE IF Alive(lrc[p].val)
     THEN /\ get_locked_pid_return(p, lrc[p].val)
          /\ UNCHANGED shmName
     ELSE /\ lpc' = [lpc EXCEPT ![p] = "g_unlink"]
          /\ UNCHANGED <<lrc, shmName>>
  /\ UNCHANGED <<shmData, lmode, lsig>>
  /\ UNCHANGED lusr
  /\ UNCHANGED coreVars

\* unlock_scheduler(): shm_unlink(PROCESS_NAME)
unlock_scheduler == shmName' = NoObject

\* get_locked_pid without line 259: the stale lock is reported as no lock
\* but left in place
get_locked_pid_unlink_Keeps(p) ==
  /\ lpc[p] = "g_unlink"
  /\ UNCHANGED shmName
  /\ get_locked_pid_return(p, 0)
  /\ UNCHANGED <<shmData, lmode, lsig>>
  /\ UNCHANGED lusr
  /\ UNCHANGED coreVars

\* get_locked_pid: the pid is no live process: unlock_scheduler(); return 0
get_locked_pid_unlink(p) ==
  /\ lpc[p] = "g_unlink"
  /\ unlock_scheduler
  /\ get_locked_pid_return(p, 0)
  /\ UNCHANGED <<shmData, lmode, lsig>>
  /\ UNCHANGED lusr
  /\ UNCHANGED coreVars

\* lock_scheduler: shm_open(PROCESS_NAME, O_RDWR|O_CREAT|O_EXCL, 0744);
\* on failure it returns -1 and main calls get_locked_pid()
lock_scheduler_create(p) ==
  /\ lpc[p] = "l_create"
  /\ IF shmName # NoObject
     THEN /\ lpc' = [lpc EXCEPT ![p] = "g_open"]
          /\ lrc' = [lrc EXCEPT ![p] = Locals("main", NoObject, 0)]
          /\ UNCHANGED <<shmName, shmData>>
     ELSE /\ shmName' = p
          /\ shmData' = [shmData EXCEPT ![p] = <<>>]
          /\ lpc' = [lpc EXCEPT ![p] = "l_write"]
          /\ lrc' = [lrc EXCEPT ![p] = Locals(@.site, p, 0)]
  /\ UNCHANGED <<lmode, lsig>>
  /\ UNCHANGED lusr
  /\ UNCHANGED coreVars

\* lock_scheduler: sprintf, write(handle, buf, sizeof(buf)); return 0;
\* main then evaluates !get_locked_pid()
lock_scheduler_write(p) ==
  /\ lpc[p] = "l_write"
  /\ shmData' = [shmData EXCEPT ![p] = FormatPid(p)]
  /\ lpc' = [lpc EXCEPT ![p] = "g_open"]
  /\ lrc' = [lrc EXCEPT ![p] = Locals("main", NoObject, 0)]
  /\ UNCHANGED <<shmName, lmode, lsig>>
  /\ UNCHANGED lusr
  /\ UNCHANGED coreVars

\* main lines 650-666: the initialisations, then the signal handlers
main_initialise(p) ==
  /\ lpc[p] = "init"
  /\ ~lsig[p]
  /\ lpc' = [lpc EXCEPT ![p] = "loop"]
  /\ UNCHANGED <<shmName, shmData, lrc, lmode, lsig>>
  /\ UNCHANGED lusr
  /\ UNCHANGED coreVars

\* kill_scheduler: kill(pid, SIGQUIT)
kill_scheduler_kill(p) ==
  /\ lpc[p] = "k_kill"
  /\ IF Alive(lrc[p].val)
     THEN /\ lsig' = [lsig EXCEPT ![lrc[p].val] = TRUE]
          /\ lpc' = [lpc EXCEPT ![p] = "k_unlock"]
     ELSE /\ lpc' = [lpc EXCEPT ![p] = "exited"]
          /\ UNCHANGED lsig
  /\ UNCHANGED <<shmName, shmData, lrc, lmode>>
  /\ UNCHANGED lusr
  /\ UNCHANGED coreVars

\* kill_scheduler: unlock_scheduler(); main returns 0
kill_scheduler_unlock(p) ==
  /\ lpc[p] = "k_unlock"
  /\ unlock_scheduler
  /\ lpc' = [lpc EXCEPT ![p] = "exited"]
  /\ UNCHANGED <<shmData, lrc, lmode, lsig>>
  /\ UNCHANGED lusr
  /\ UNCHANGED coreVars

\* the event loop ends (SIGQUIT, SIGTERM, SIGINT or --test):
\* return close_scheduler();
close_scheduler(p) ==
  /\ lpc[p] = "loop"
  /\ lpc' = [lpc EXCEPT ![p] = "exited"]
  /\ UNCHANGED <<shmName, shmData, lrc, lmode, lsig>>
  /\ UNCHANGED lusr
  /\ UNCHANGED coreVars

\* SIGQUIT before signal(SIGQUIT, prnt_sig): the default action ends the process
default_SIGQUIT(p) ==
  /\ lsig[p]
  /\ lpc[p] \notin {"new", "exited", "fatal", "crashed", "loop"}
  /\ lpc' = [lpc EXCEPT ![p] = "exited"]
  /\ UNCHANGED <<shmName, shmData, lrc, lmode, lsig>>
  /\ UNCHANGED lusr
  /\ UNCHANGED coreVars

(* ------------------------- the scheduler process ----------------------- *)
LockIdle ==
  /\ shmName = NoObject
  /\ shmData = [p \in Procs |-> <<>>]
  /\ lpc = [p \in Procs |-> "new"]
  /\ lrc = [p \in Procs |-> Locals("lock", NoObject, 0)]
  /\ lmode = [p \in Procs |-> "run"]
  /\ lsig = [p \in Procs |-> FALSE]
  /\ lusr = [p \in Procs |-> "none"]

\* the state main() leaves when it calls event_loop_enter(update_scheduler)
Init ==
  /\ closing \in BOOLEAN          \* --test sets closing = 1 (line 674)
  /\ j = NoJob
  /\ lockout = FALSE
  /\ terminated = FALSE
  /\ pc = "tick"
  /\ queue = <<Event("DATABASE_UPDATE", {})>>      \* line 679
  /\ jtype \in [Jobs -> Types]
  /\ jstate = [a \in Jobs |-> "NEW"]
  /\ agent = [a \in Jobs |-> "NONE"]
  /\ ahost = [a \in Jobs |-> NoHost]
  /\ proc = [a \in Jobs |-> "none"]
  /\ hosts \in {HostsFromConfig(c) : c \in HostConfigs}   \* line 656
  /\ meta = MetaFromConfig
  /\ calls = <<>>
  /\ pulled = <<>>
  /\ LockIdle

Next ==
  \/ update_scheduler
  \/ agent_death_event
  \/ agent_update_event
  \/ database_update_event
  \/ scheduler_close_event
  \/ \E a \in Jobs, status \in {0, 1} : AgentExit(a, status)
  \/ chld_sig
  \/ prnt_sig_SIGALRM
  \/ prnt_sig_SIGTERM
  \/ \E c \in HostConfigs : prnt_sig_SIGHUP(c)

Spec == Init /\ [][Next]_vars

\* the queue of scenario 3: job A ordinary, job B EXCLUSIVE, job C ordinary,
\* in that order of priority, every configured host registered
ScenarioInit ==
  /\ Init
  /\ ~closing
  /\ jtype = [a \in Jobs |-> IF a = 2 THEN "migrate" ELSE "copyright"]
  /\ DOMAIN hosts = HostIds

\* the scheduler process while the configuration is left alone
FairNext ==
  \/ update_scheduler
  \/ agent_death_event
  \/ agent_update_event
  \/ database_update_event
  \/ scheduler_close_event
  \/ \E a \in Jobs, status \in {0, 1} : AgentExit(a, status)
  \/ chld_sig
  \/ prnt_sig_SIGALRM
  \/ prnt_sig_SIGTERM

\* the event loop thread: it takes the next event, or runs the tick
LoopStep ==
  \/ update_scheduler
  \/ agent_death_event
  \/ agent_update_event
  \/ database_update_event
  \/ scheduler_close_event

\* the agent processes and the kernel: an agent ends, SIGCHLD is delivered
ChildStep ==
  \/ \E a \in Jobs, status \in {0, 1} : AgentExit(a, status)
  \/ chld_sig

\* ... with the scheduling the code guarantees: the loop takes every event
\* and runs the tick after it, every agent process ends and the kernel
\* delivers SIGCHLD, and the alarm is re-armed (line 128)
FairSpec ==
  /\ ScenarioInit
  /\ [][FairNext]_vars
  /\ WF_vars(LoopStep)
  /\ WF_vars(ChildStep)
  /\ WF_vars(prnt_sig_SIGALRM)

(* ------------------------- processes around the lock ------------------- *)
\* no scheduler process has initialised anything yet
CoreIdle ==
  /\ closing = FALSE
  /\ j = NoJob
  /\ lockout = FALSE
  /\ terminated = FALSE
  /\ pc = "wait"
  /\ queue = <<>>
  /\ jtype = [a \in Jobs |-> "copyright"]
  /\ jstate = [a \in Jobs |-> "NEW"]
  /\ agent = [a \in Jobs |-> "NONE"]
  /\ ahost = [a \in Jobs |-> NoHost]
  /\ proc = [a \in Jobs |-> "none"]
  /\ hosts = HostsFromConfig({})
  /\ meta = [t \in {} |-> 0]
  /\ calls = <<>>
  /\ pulled = <<>>

LockInit == CoreIdle /\ LockIdle

LockNext ==
  \E p \in Procs :
    \/ \E m \in {"run", "kill"} : main_start(p, m)
    \/ get_locked_pid_open(p)
    \/ get_locked_pid_read(p)
    \/ get_locked_pid_check(p)
    \/ get_locked_pid_unlink(p)
    \/ lock_scheduler_create(p)
    \/ lock_scheduler_write(p)
    \/ main_initialise(p)
    \/ kill_scheduler_kill(p)
    \/ kill_scheduler_unlock(p)
    \/ close_scheduler(p)
    \/ default_SIGQUIT(p)

LockSpec == LockInit /\ [][LockNext]_vars

\* the scheduler binary started again only when no process started before
\* is still alive: lock_scheduler and get_locked_pid run without any other
\* process acting on the lock
SoloNext ==
  \E p \in Procs :
    \/ (\A q \in Procs : ~Alive(q)) /\ main_start(p, "run")
    \/ get_locked_pid_open(p)
    \/ get_locked_pid_read(p)
    \/ get_locked_pid_check(p)
    \/ get_locked_pid_unlink(p)
    \/ lock_scheduler_create(p)
    \/ lock_scheduler_write(p)
    \/ main_initialise(p)
    \/ close_scheduler(p)

SoloSpec == LockInit /\ [][SoloNext]_vars

(* ------------------------------ claims --------------------------------- *)
Live == {a \in Jobs : agent[a] = "SPAWNING"}
Exclusive(a) == jtype[a] = "migrate"

RECURSIVE SumRunning(_)
SumRunning(H) ==
  IF H = {} THEN 0
  ELSE LET h == Min(H)
       IN  hosts[h].running_agents + SumRunning(H \ {h})

\* C1: exclusivity: an agent of an EXCLUSIVE job type is never live together
\* with any other live agent.
C1_ExclusiveAlone ==
  \A a \in Live : Exclusive(a) => Live = {a}

\* C2: once closing is set, no tick passes a job to agent_init and no agent
\* enters SPAWNING.
C2_NoLaunchAfterClose ==
  [][closing => /\ \A a \in Jobs : agent'[a] = "SPAWNING" => agent[a] = "SPAWNING"
                /\ (pc = "tick" /\ pc' = "wait") => calls' = <<>>]_vars

\* C3: singleton instance: at no time have two processes both passed the
\* lock check of main (line 644) and gone on to initialise or run the loop.
C3_Singleton ==
  Cardinality({p \in Procs : lpc[p] \in {"init", "loop"}}) <= 1

\* C4: drain law: after SCHEDULER_CLOSE is processed, with every agent dying
\* and every death delivered, update_scheduler eventually calls
\* event_loop_terminate.
C4_Drain == closing ~> terminated

\* C5: host capacity: every host has 0 <= running_agents <= max_agents, and
\* the pull loop never calls agent_init for a job without a host.
C5_HostCapacity ==
  /\ \A h \in DOMAIN hosts :
       /\ 0 <= hosts[h].running_agents
       /\ hosts[h].running_agents <= hosts[h].max_agents
  /\ \A i \in 1..Len(calls) :
       ~Exclusive(calls[i][1]) => calls[i][2] # NoHost

\* C6: while lockout is set at most one agent is live, and it belongs to an
\* EXCLUSIVE job type.
C6_Lockout ==
  lockout => /\ Cardinality(Live) <= 1
             /\ \A a \in Live : Exclusive(a)

\* C7: every exclusive job held as deferred_job is eventually launched once
\* all other agents have died.
C7_DeferredLaunched ==
  (j # NoJob /\ Live = {}) ~> (j = NoJob)

\* C8: host accounting: the sum over all hosts of running_agents equals the
\* number of live agents the supervisor holds, also after a reload.
C8_HostAccounting ==
  SumRunning(DOMAIN hosts) = num_agents(agent)

\* C9: SIGHUP only enqueues a CONFIG_RELOAD event: the step of the signal
\* handler leaves the host and meta-agent registries as they are.
C9_SighupOnlyEnqueues ==
  [][(\E c \in HostConfigs : prnt_sig_SIGHUP(c)) =>
       /\ UNCHANGED <<hosts, meta, ahost>>
       /\ queue' = event_signal(queue, "CONFIG_RELOAD", {})]_vars

\* C10: kill_scheduler, once it has read the locked pid, sends the signal
\* and leaves the shared-memory lock in place.
C10_KillLeavesLock ==
  [][\A p \in Procs :
       (lpc[p] \in {"k_kill", "k_unlock"} /\ lpc'[p] # lpc[p])
         => shmName' = shmName]_vars

\* C11: N ordinary jobs of one type on a single host of capacity M < N:
\* after a tick the jobs that have no agent are still PENDING (or not yet
\* read from storage), none is left claimed, and at most M agents are live.
C11_RestStayPending ==
  (/\ pc = "wait"
   /\ \A a \in Jobs : jtype[a] = "copyright"
   /\ Cardinality(DOMAIN hosts) = 1
   /\ j = NoJob)
  => /\ \A a \in Jobs : agent[a] = "NONE" => jstate[a] \in {"NEW", "PENDING"}
     /\ \A h \in DOMAIN hosts : Cardinality(Live) <= hosts[h].max_agents

C14_PrivilegeFirst ==
  \A p \in Procs :
    /\ (lpc[p] \in {"l_create", "l_write", "init", "loop"} \/ shmName = p)
         => lusr[p] = "ok"
    /\ lusr[p] \notin {"none", "ok"} => lpc[p] = "fatal"

\* C15: event_loop_terminate is called only in a tick in which closing is
\* set and the live-agent count and the active-job count are both 0, and in
\* such a tick update_scheduler calls it and returns: it pulls no job and
\* launches no agent.
C15_TerminateOnlyDrained ==
  [][/\ terminated' # terminated
          => /\ pc = "tick" /\ pc' = "wait"
             /\ closing
             /\ num_agents(agent) = 0
             /\ active_jobs(jstate) = 0
     /\ (/\ pc = "tick" /\ pc' = "wait"
         /\ closing /\ num_agents(agent) = 0 /\ active_jobs(jstate) = 0)
          => /\ terminated'
             /\ pulled' = <<>>
             /\ calls' = <<>>
             /\ UNCHANGED <<j, lockout, jstate, agent, ahost, proc, hosts>>]_vars

\* C15 witness: the tick has called event_loop_terminate while jobs were
\* PENDING in the queue, and has left them there
C15_Witness ==
  /\ terminated
  /\ closing
  /\ pc = "wait"
  /\ pulled = <<>>
  /\ \E a \in Jobs : jstate[a] = "PENDING"

\* C16: two-phase deferral.  In a tick that starts with a deferred job,
\* next_job() is not called and no job but the deferred one is launched; in
\* a tick that starts under lockout and does not observe zero live agents
\* and zero active jobs, lockout stays, next_job() is not called and nothing
\* is launched; in the tick that claims an exclusive job nothing is pulled
\* or launched after it but the job itself; lockout is cleared only by a
\* tick that observes zero live agents and zero active jobs.
C16_TwoPhaseDeferral ==
  [][/\ (pc = "tick" /\ pc' = "wait" /\ j # NoJob)
          => /\ pulled' = <<>>
             /\ \A i \in 1..Len(calls') : calls'[i][1] = j
     /\ (/\ pc = "tick" /\ pc' = "wait" /\ lockout
         /\ ~(num_agents(agent) = 0 /\ active_jobs(jstate) = 0))
          => /\ lockout'
             /\ pulled' = <<>>
             /\ calls' = <<>>
     /\ (pc = "tick" /\ pc' = "wait")
          => /\ \A i \in 1..Len(pulled') :
                  Exclusive(pulled'[i]) => i = Len(pulled')
             /\ \A i \in 1..Len(calls') :
                  Exclusive(calls'[i][1]) => i = Len(calls')
     /\ (lockout /\ ~lockout')
          => /\ pc = "tick" /\ pc' = "wait"
             /\ num_agents(agent) = 0
             /\ active_jobs(jstate) = 0]_vars

\* C16 witness: a tick has run with an exclusive job deferred and has left
\* a PENDING job of a type with spare capacity in the queue
C16_Witness ==
  /\ pc = "wait"
  /\ j # NoJob
  /\ Exclusive(j)
  /\ pulled = <<>>
  /\ \E a \in Jobs : jstate[a] = "PENDING" /\ ~Exclusive(a)
  /\ \E h \in DOMAIN hosts : hosts[h].running_agents < hosts[h].max_agents

\* C17: no-host path: after a tick in which get_host(1) had no host for a
\* claimed non-exclusive job, that job is PENDING again and has no agent,
\* and it is the last job the tick pulled.
C17_NoHostReleases ==
  pc = "wait" =>
    \A i \in 1..Len(calls) :
      (calls[i][2] = NoHost /\ ~Exclusive(calls[i][1]))
      => /\ jstate[calls[i][1]] = "PENDING"
         /\ agent[calls[i][1]] = "NONE"
         /\ pulled[Len(pulled)] = calls[i][1]

\* C18: a SIGCHLD delivery reaps every child that is dead at that moment
\* and enqueues exactly one AGENT_DEATH event; its batch holds exactly the
\* pids reaped, which with the terminating 0 fit the num_agents() + 1
\* entries allocated; no pid of the batch is in an event already enqueued,
\* and every child reaped and not yet retired is in exactly one event.
C18_SigchldBatch ==
  [][/\ (\E a \in Jobs : proc[a] \in {"zombie0", "zombie1"} /\ proc'[a] # proc[a])
          => LET dead == {a \in Jobs : proc[a] \in {"zombie0", "zombie1"}}
             IN  /\ \A a \in dead :
                      proc'[a] = IF proc[a] = "zombie0" THEN "reaped0"
                                 ELSE "reaped1"
                 /\ queue' = Append(queue, Event("AGENT_DEATH", dead))
                 /\ Cardinality(dead) + 1 <= num_agents(agent) + 1
                 /\ \A i \in 1..Len(queue) : queue[i].pids \cap dead = {}
     /\ \A a \in Jobs :
          proc[a] \in {"reaped0", "reaped1"}
          => Cardinality({i \in 1..Len(queue) :
                            /\ queue[i].kind = "AGENT_DEATH"
                            /\ a \in queue[i].pids}) = 1]_vars

\* C18 witness: one SIGCHLD delivery has reaped two children into one batch
C18_Witness ==
  \E i \in 1..Len(queue) :
    /\ queue[i].kind = "AGENT_DEATH"
    /\ Cardinality(queue[i].pids) >= 2
    /\ \A a \in queue[i].pids : proc[a] \in {"reaped0", "reaped1"}

\* C19: stale-lock recovery: when lock_scheduler has found no live owner
\* the name is free (a lock naming a dead pid has been unlinked); the
\* object it creates is the caller's; after its return the lock names the
\* caller, holds the caller's pid, and the following get_locked_pid reads
\* the caller's object and yields the caller's pid, so no start ends in the
\* lock error.
C19_StaleLockRecovery ==
  \A p \in Procs :
    /\ lpc[p] = "l_create" => shmName = NoObject
    /\ lpc[p] = "l_write" => shmName = p
    /\ (lpc[p] \in {"g_open", "g_read", "g_check"} /\ lrc[p].site = "main")
         => /\ shmName = p
            /\ atoi(shmData[p]) = p
    /\ (lpc[p] \in {"g_read", "g_check"} /\ lrc[p].site = "main")
         => lrc[p].handle = p
    /\ (lpc[p] = "g_check" /\ lrc[p].site = "main") => lrc[p].val = p
    /\ lpc[p] \in {"init", "loop"} => shmName = p /\ atoi(shmData[p]) = p
    /\ lpc[p] = "fatal" => lusr[p] # "ok"

\* C19 witness: a process has passed the lock check of main with the lock
\* in its name, after it found the lock of a process that had ended
C19_Witness ==
  \E p \in Procs, q \in Procs :
    /\ p # q
    /\ lpc[q] = "exited"
    /\ shmData[q] = FormatPid(q)
    /\ lpc[p] = "init"
    /\ shmName = p
    /\ atoi(shmData[p]) = p

\* C20: lock race, two processes started to run the scheduler: a step of
\* get_locked_pid or lock_scheduler in one process never unlinks the lock object a live other process has created,
\* and never changes what that object holds, also between the creation of
\* the object and the write of the pid.
C20_LockRace ==
  [][\A p \in Procs, q \in Procs :
       (/\ p # q
        /\ lmode[p] = "run" /\ lmode[q] = "run"
        /\ lusr[p] = "ok" /\ lusr[q] = "ok"
        /\ shmName = p
        /\ Alive(p)
        /\ lpc[q] \in {"g_open", "g_read", "g_check", "g_unlink",
                       "l_create", "l_write"}
        /\ lpc'[q] # lpc[q])
       => /\ shmName' = p
          /\ shmData'[p] = shmData[p]]_vars

\* C21: job conservation: at the end of a tick every job next_job() returned
\* in it has a launched agent, or is PENDING again, or is held as the
\* deferred job, exactly one of the three; the deferred job is cleared and
\* lockout is set only when the launch of the exclusive job produced an
\* agent.
C21_JobConservation ==
  [][(pc = "tick" /\ pc' = "wait")
       => /\ \A i \in 1..Len(pulled') :
               LET a == pulled'[i]
               IN  Cardinality(
                     {k \in {"launched", "released", "deferred"} :
                        \/ k = "launched" /\ agent'[a] = "SPAWNING"
                        \/ k = "released" /\ jstate'[a] = "PENDING"
                        \/ k = "deferred" /\ j' = a}) = 1
          /\ \A a \in Jobs :
               (/\ j = a \/ \E i \in 1..Len(pulled') : pulled'[i] = a
                /\ Exclusive(a)
                /\ j' # a)
               => agent'[a] = "SPAWNING" /\ lockout'
          /\ (lockout' /\ ~lockout)
               => \E a \in Jobs : /\ Exclusive(a)
                                  /\ agent'[a] = "SPAWNING"
                                  /\ agent[a] # "SPAWNING"]_vars

====
